---- MODULE Spec2Model ----
(***************************************************************************)
(* CacheUtil.js: the two-tier cache in front of the TTMS read-only API.    *)
(* memoryCache (ephemeral tier), localStorage (durable tier), the inflight *)
(* registry, the hit/miss statistics and the quota circuit breaker, driven *)
(* by cachedFetch, prefetch, clearCache, clearOldCache and resetStats.     *)
(* Every await of the source is a separate step of the model.              *)
(***************************************************************************)
EXTENDS Integers, Sequences, FiniteSets, TLC

(***************************************************************************)
(* Characters and strings.  A string of the program is a tuple of          *)
(* one-character strings; Ascii lists the printable characters from code   *)
(* 32 to code 126, so that charCodeAt is a table lookup.                   *)
(***************************************************************************)
Ascii ==
    << " ", "!", "(quote)", "#", "$", "%", "&", "'", "(", ")", "*", "+", ",", "-", ".", "/",
       "0", "1", "2", "3", "4", "5", "6", "7", "8", "9", ":", ";", "<", "=", ">", "?",
       "@", "A", "B", "C", "D", "E", "F", "G", "H", "I", "J", "K", "L", "M", "N", "O",
       "P", "Q", "R", "S", "T", "U", "V", "W", "X", "Y", "Z", "[", "(backslash)", "]", "^", "_",
       "(grave)", "a", "b", "c", "d", "e", "f", "g", "h", "i", "j", "k", "l", "m", "n", "o",
       "p", "q", "r", "s", "t", "u", "v", "w", "x", "y", "z", "{", "|", "}", "~" >>

charCodeAt(s, i) == 31 + (CHOOSE n \in 1..Len(Ascii) : Ascii[n] = s[i])

\* the base64 alphabet of btoa, sextet value v at position v + 1
Base64Alphabet ==
    << "A", "B", "C", "D", "E", "F", "G", "H", "I", "J", "K", "L", "M", "N", "O", "P",
       "Q", "R", "S", "T", "U", "V", "W", "X", "Y", "Z", "a", "b", "c", "d", "e", "f",
       "g", "h", "i", "j", "k", "l", "m", "n", "o", "p", "q", "r", "s", "t", "u", "v",
       "w", "x", "y", "z", "0", "1", "2", "3", "4", "5", "6", "7", "8", "9", "+", "/" >>

Min(a, b) == IF a < b THEN a ELSE b

substring(s, from, to) == SubSeq(s, from + 1, Min(to, Len(s)))

\* a prefix test that accepts every key
startsWithAny(s, prefix) == TRUE

startsWith(s, prefix) ==
    /\ Len(s) >= Len(prefix)
    /\ SubSeq(s, 1, Len(prefix)) = prefix

\* btoa: three bytes give four sextets; a last group of one or two bytes is
\* padded with zero bits and closed with "=" signs
RECURSIVE btoa(_)
btoa(s) ==
    IF Len(s) = 0 THEN << >>
    ELSE LET b1 == charCodeAt(s, 1)
             b2 == IF Len(s) >= 2 THEN charCodeAt(s, 2) ELSE 0
             b3 == IF Len(s) >= 3 THEN charCodeAt(s, 3) ELSE 0
             c1 == Base64Alphabet[(b1 \div 4) + 1]
             c2 == Base64Alphabet[((b1 % 4) * 16 + (b2 \div 16)) + 1]
             c3 == Base64Alphabet[((b2 % 16) * 4 + (b3 \div 64)) + 1]
             c4 == Base64Alphabet[(b3 % 64) + 1]
         IN  IF Len(s) = 1 THEN << c1, c2, "=", "=" >>
             ELSE IF Len(s) = 2 THEN << c1, c2, c3, "=" >>
             ELSE << c1, c2, c3, c4 >> \o btoa(SubSeq(s, 4, Len(s)))

\* replace(/[^a-zA-Z0-9]/g, empty string)
stripNonAlnum(s) == SelectSeq(s, LAMBDA ch : ch \notin {"+", "/", "="})

\* the decimal digits of a number n >= 0
RECURSIVE Digits(_)
Digits(n) ==
    IF n < 10 THEN << Ascii[17 + n] >>
    ELSE Digits(n \div 10) \o << Ascii[17 + (n % 10)] >>

\* string concatenation of a number, as in CACHE_PREFIX + hash
NumberToString(n) == IF n < 0 THEN << "-" >> \o Digits(0 - n) ELSE Digits(n)

(***************************************************************************)
(* Key Deriver and TTL Resolver.                                           *)
(***************************************************************************)
CACHE_PREFIX == << "T", "T", "M", "S", "_", "c", "a", "c", "h", "e", "_" >>

\* hash = ((hash << 5) - hash) + char; hash |= 0, on a 32-bit integer held as
\* two unsigned 16-bit halves <<hi, lo>>
HashStep(h, char) ==
    LET lo == 31 * h[2] + char
        hi == 31 * h[1] + (lo \div 65536)
    IN  << hi % 65536, lo % 65536 >>

RECURSIVE HashFrom(_, _, _)
HashFrom(url, i, h) ==
    IF i > Len(url) THEN h ELSE HashFrom(url, i + 1, HashStep(h, charCodeAt(url, i)))

\* the signed value of the 32-bit pattern <<hi, lo>>
ToInt32(h) == IF h[1] >= 32768 THEN (h[1] - 65536) * 65536 + h[2] ELSE h[1] * 65536 + h[2]

getCacheKey(url) ==
    CACHE_PREFIX
        \o NumberToString(ToInt32(HashFrom(url, 1, << 0, 0 >>)))
        \o << "_" >>
        \o substring(stripNonAlnum(btoa(substring(url, 0, 100))), 0, 40)

\* the position of the first occurrence of pat in s at or after i, 0 if none
RECURSIVE IndexOf(_, _, _)
IndexOf(s, pat, i) ==
    IF i + Len(pat) - 1 > Len(s) THEN 0
    ELSE IF SubSeq(s, i, i + Len(pat) - 1) = pat THEN i
    ELSE IndexOf(s, pat, i + 1)

\* the longest run of characters other than "&" starting at position i
RECURSIVE UpToAmp(_, _)
UpToAmp(s, i) ==
    IF i > Len(s) \/ s[i] = "&" THEN << >> ELSE << s[i] >> \o UpToAmp(s, i + 1)

DefaultEntity == << "d", "e", "f", "a", "u", "l", "t" >>

\* url.match(/entity=([^&]+)/): the first "entity=" followed by at least one
\* character that is not "&"
RECURSIVE MatchEntity(_, _)
MatchEntity(url, from) ==
    LET at == IndexOf(url, << "e", "n", "t", "i", "t", "y", "=" >>, from)
    IN  IF at = 0 THEN << >>
        ELSE IF UpToAmp(url, at + 7) # << >> THEN UpToAmp(url, at + 7)
        ELSE MatchEntity(url, at + 1)

getEntityFromUrl(url) ==
    IF MatchEntity(url, 1) # << >> THEN MatchEntity(url, 1) ELSE DefaultEntity

Minute == 60 * 1000
Hour == 60 * Minute

TTL_CONFIG(entity) ==
    CASE entity = << "s", "e", "s", "i", "s", "e", "m", "e", "s", "t", "e", "r" >> -> 24 * Hour
      [] entity = << "p", "e", "l", "a", "j", "a", "r", "_", "s", "u", "b", "j", "e", "k" >> -> Hour
      [] entity = << "j", "a", "d", "u", "a", "l", "_", "s", "u", "b", "j", "e", "k" >> -> Hour
      [] entity = << "j", "a", "d", "u", "a", "l", "_", "r", "u", "a", "n", "g" >> -> Hour
      [] entity = << "r", "u", "a", "n", "g" >> -> 6 * Hour
      [] entity = << "s", "u", "b", "j", "e", "k" >> -> Hour
      [] entity = << "s", "u", "b", "j", "e", "k", "_", "s", "e", "k", "s", "y", "e", "n" >> -> Hour
      [] entity = << "p", "e", "n", "s", "y", "a", "r", "a", "h" >> -> 6 * Hour
      [] entity = << "p", "e", "l", "a", "j", "a", "r" >> -> 30 * Minute
      [] entity = << "s", "u", "b", "j", "e", "k", "_", "p", "e", "l", "a", "j", "a", "r" >> -> 30 * Minute
      [] entity = DefaultEntity -> 30 * Minute
      [] OTHER -> 0

\* TTL_CONFIG[entity] || TTL_CONFIG['default']; 0 stands for undefined
getTTL(entity) == IF TTL_CONFIG(entity) # 0 THEN TTL_CONFIG(entity) ELSE TTL_CONFIG(DefaultEntity)

(***************************************************************************)
(* Bounds and inputs of the model.                                         *)
(***************************************************************************)
MaxCalls == 3
MaxTicks == 1

\* the calls of cachedFetch and prefetch in a session that also makes
\* maintenance calls
MaxApiCalls == 2

Day == 24 * Hour

\* Date.now() when the page loads
StartTime == 2 * Day

\* the amount by which the clock advances in one step
TickStep == 30 * Minute

\* "?entity=pelajar" and "?entity=subjek"
Urls ==
    { << "?", "e", "n", "t", "i", "t", "y", "=", "p", "e", "l", "a", "j", "a", "r" >>,
      << "?", "e", "n", "t", "i", "t", "y", "=", "s", "u", "b", "j", "e", "k" >> }

KeyOf == [u \in Urls |-> getCacheKey(u)]

CacheKeys == {KeyOf[u] : u \in Urls}

\* the session key of the login gate, which shares localStorage with the cache
SessionKey ==
    << "T", "T", "M", "S", "F", "C", "_", "u", "s", "e", "r",
       "S", "e", "s", "s", "i", "o", "n" >>

\* JSON payloads: the numbers 0, 1 and 2; 0 is the falsy one
Data == {0, 1, 2}

\* the payloads the API answers with in this session
Payloads == {0, 2}

Truthy(value) == value # 0

\* the value of a missing result
Undefined == 0 - 1

\* options of a call: the defaults, and each flag alone
NoOptions ==
    [forceRefresh |-> FALSE, skipCache |-> FALSE, customTTL |-> 0,
     staleWhileRevalidate |-> FALSE]

ForceRefresh == [NoOptions EXCEPT !.forceRefresh = TRUE]

SkipCache == [NoOptions EXCEPT !.skipCache = TRUE]

StaleWhileRevalidate == [NoOptions EXCEPT !.staleWhileRevalidate = TRUE]

CustomTTL == [NoOptions EXCEPT !.customTTL = 2 * Hour]

\* what reading a response body gives: a JSON text, a text that is not JSON,
\* or a failure of the transfer
BodyOutcomes ==
    {[kind |-> "json", data |-> d] : d \in Payloads}
        \cup {[kind |-> "garbage", data |-> Undefined], [kind |-> "lost", data |-> Undefined]}

VARIABLES
    now,                    \* Date.now()
    memoryCache,            \* Map: cache key -> entry
    localStorage,           \* durable store: key -> stored string
    capacity,               \* the number of items localStorage has room for
    denied,                 \* whether the browser refuses writes to localStorage
    inflight,               \* Map: cache key -> the call whose promise is registered
    stats,                  \* [hits, misses]
    storageQuotaExceeded,   \* circuit breaker of the durable writes
    calls,                  \* the calls of cachedFetch and prefetch made so far
    returned                \* what the last synchronous API call returned: a
                            \* number (value) or a set of records (report)

vars ==
    << now, memoryCache, localStorage, capacity, denied, inflight, stats,
       storageQuotaExceeded, calls, returned >>

(***************************************************************************)
(* Maps and stored strings.                                                *)
(***************************************************************************)
MapSet(map, key, value) ==
    [k \in DOMAIN map \cup {key} |-> IF k = key THEN value ELSE map[k]]

MapDelete(map, key) == [k \in DOMAIN map \ {key} |-> map[k]]

\* JSON.stringify of a cache entry
stringify(entry) ==
    [text |-> "json", timestamp |-> entry.timestamp, data |-> entry.data]

\* whether JSON.parse accepts a stored string
Parses(string) == string.text \in {"json", "json-no-timestamp"}

\* JSON.parse of a stored string that parses
parse(string) ==
    IF string.text = "json"
    THEN [timestamp |-> string.timestamp, data |-> string.data]
    ELSE [data |-> string.data]

Garbage == [text |-> "garbage"]

HasTimestamp(entry) == "timestamp" \in DOMAIN entry /\ entry.timestamp # 0

\* an entry whose age equals the TTL still counts as valid
isCacheValidAtTTL(cacheEntry, ttl) ==
    IF ~HasTimestamp(cacheEntry) THEN FALSE
    ELSE LET age == now - cacheEntry.timestamp IN age <= ttl

isCacheValid(cacheEntry, ttl) ==
    IF ~HasTimestamp(cacheEntry) THEN FALSE
    ELSE LET age == now - cacheEntry.timestamp IN age < ttl

\* customTTL || getTTL(entity)
ResolveTTL(url, customTTL) ==
    IF customTTL # 0 THEN customTTL ELSE getTTL(getEntityFromUrl(url))

TtlOf == [u \in Urls |-> ResolveTTL(u, 0)]

(***************************************************************************)
(* Calls.  A call record holds the position of the async function          *)
(* cachedFetch (pc), the promise it returns (settled, value, error), and   *)
(* the network operation it started, if any (op, stage, ...): the          *)
(* fetchPromise of a miss, the refreshPromise of a stale serve, or the     *)
(* direct fetch of skipCache.  A call is known by its position in calls.   *)
(***************************************************************************)
NewCall(url, options, api) ==
    [ url |-> url, options |-> options, api |-> api,
      emptyAtCall |->           \* neither tier held the key when the call was made
          /\ KeyOf[url] \notin DOMAIN memoryCache
          /\ KeyOf[url] \notin DOMAIN localStorage,
      pc |-> "start",           \* "attached", "awaiting", "direct", "done"
      ticket |-> 0,             \* the call whose promise this one returned
      settled |-> "pending",    \* "resolved", "rejected"
      value |-> Undefined,
      error |-> "none",         \* "network", "parse"
      outer |-> "pending",      \* the promise of prefetch around the call
      op |-> "none",            \* "fetch", "refresh", "direct"
      stage |-> "none",         \* "fetch", "text", "resolved", "rejected"
      opValue |-> Undefined,
      opError |-> "none",       \* the error op failed with, also when swallowed
      stale |-> Undefined,      \* cacheEntry.data captured by the refresh
      setItems |-> << >>,       \* the outcomes of the durable writes of op
      evictions |-> 0 ]         \* the runs of clearOldCache made by op

\* a prefetch without its try/catch: the outcome of the call is passed on
prefetchResultPropagates(innerSettled) == innerSettled

\* prefetch: try { await cachedFetch(...) } catch (e) { }
prefetchResult(innerSettled) == "resolved"

\* the promise of cachedFetch settles
Settle(call, settled, value, error) ==
    [call EXCEPT !.pc = "done", !.settled = settled, !.value = value, !.error = error,
                 !.outer = IF call.api = "prefetch" THEN prefetchResult(settled)
                           ELSE "pending"]

\* fetch(url) is called: the network request is under way
StartOp(call, op) == [call EXCEPT !.op = op, !.stage = "fetch"]

Outstanding(call) == call.op # "none" /\ call.stage \in {"fetch", "text"}

OpSettled(call) == call.stage \in {"resolved", "rejected"}

\* the skipCache option is not read
BypassesNever(options) == FALSE

\* line 102: skipCache goes straight to the network
Bypasses(options) == options.skipCache

\* a registry looked up under the wrong key never finds a ticket
AttachesNever(options, cacheKey) == FALSE

\* line 113: reuse the promise in flight
Attaches(options, cacheKey) ==
    ~options.skipCache /\ ~options.forceRefresh /\ cacheKey \in DOMAIN inflight

\* a miss path that never registers its fetchPromise
RegistersNever(options) == FALSE

\* line 229: register the fetchPromise
Registers(options) == ~options.skipCache /\ ~options.forceRefresh

\* line 145: serve the stale entry and refresh in the background
ServesStale(options, cacheEntry) ==
    options.staleWhileRevalidate /\ Truthy(cacheEntry.data)

\* the synchronous part of cachedFetch(url, options), up to its first await or
\* its return
\* a hit counted on the wrong counter
CountHitAsMiss(s) == [s EXCEPT !.misses = @ + 1]

\* lines 123, 136, 146: stats.hits++
CountHit(s) == [s EXCEPT !.hits = @ + 1]

\* line 175: stats.misses++
CountMiss(s) == [s EXCEPT !.misses = @ + 1]

cachedFetch(url, options, api) ==
    /\ Len(calls) < MaxCalls
    /\ LET id == Len(calls) + 1
           call == NewCall(url, options, api)
           cacheKey == KeyOf[url]
           ttl == ResolveTTL(url, options.customTTL)
           cached == IF cacheKey \in DOMAIN localStorage
                     THEN localStorage[cacheKey] ELSE Garbage
           readable == cacheKey \in DOMAIN localStorage /\ Parses(cached)
           Miss ==
               /\ stats' = CountMiss(stats)
               /\ calls' = Append(calls, [StartOp(call, "fetch") EXCEPT !.pc = "awaiting"])
               /\ inflight' = IF Registers(options)
                              THEN MapSet(inflight, cacheKey, id) ELSE inflight
               /\ UNCHANGED memoryCache
       IN  IF Bypasses(options)
           THEN /\ calls' = Append(calls, [StartOp(call, "direct") EXCEPT !.pc = "direct"])
                /\ UNCHANGED << memoryCache, inflight, stats >>
           ELSE IF Attaches(options, cacheKey)
           THEN /\ calls' = Append(calls, [call EXCEPT !.pc = "attached",
                                                       !.ticket = inflight[cacheKey]])
                /\ UNCHANGED << memoryCache, inflight, stats >>
           ELSE IF /\ ~options.forceRefresh
                   /\ cacheKey \in DOMAIN memoryCache
                   /\ isCacheValid(memoryCache[cacheKey], ttl)
           THEN /\ stats' = CountHit(stats)
                /\ calls' = Append(calls,
                       Settle(call, "resolved", memoryCache[cacheKey].data, "none"))
                /\ UNCHANGED << memoryCache, inflight >>
           ELSE IF ~options.forceRefresh /\ readable /\ isCacheValid(parse(cached), ttl)
           THEN /\ stats' = CountHit(stats)
                /\ memoryCache' = MapSet(memoryCache, cacheKey, parse(cached))
                /\ calls' = Append(calls,
                       Settle(call, "resolved", parse(cached).data, "none"))
                /\ UNCHANGED inflight
           ELSE IF ~options.forceRefresh /\ readable /\ ServesStale(options, parse(cached))
           THEN /\ stats' = CountHit(stats)
                /\ IF cacheKey \notin DOMAIN inflight
                   THEN /\ inflight' = MapSet(inflight, cacheKey, id)
                        /\ calls' = Append(calls,
                               [Settle(StartOp(call, "refresh"), "resolved",
                                       parse(cached).data, "none")
                                   EXCEPT !.stale = parse(cached).data])
                   ELSE /\ calls' = Append(calls,
                               Settle(call, "resolved", parse(cached).data, "none"))
                        /\ UNCHANGED inflight
                /\ UNCHANGED memoryCache
           ELSE Miss
    /\ UNCHANGED << now, localStorage, capacity, denied, storageQuotaExceeded, returned >>

(***************************************************************************)
(* Durable writes.                                                         *)
(***************************************************************************)
\* what localStorage.setItem(key, ...) does on this storage: it stores
\* ("ok"), throws QuotaExceededError when the key is new and no room is left
\* ("quota"), or throws another error when the browser refuses writes ("other")
SetItemOutcome(storage, key) ==
    IF denied THEN "other"
    ELSE IF key \in DOMAIN storage \/ Cardinality(DOMAIN storage) < capacity THEN "ok"
    ELSE "quota"

\* the keys clearOldCache removes: entries of the cache older than 24 hours,
\* and strings under the prefix that do not parse
OldKeys(storage) ==
    { key \in DOMAIN storage :
        /\ startsWith(key, CACHE_PREFIX)
        /\ \/ ~Parses(storage[key])
           \/ /\ "timestamp" \in DOMAIN parse(storage[key])
              /\ now - parse(storage[key]).timestamp > 24 * 60 * 60 * 1000 }

RemoveKeys(storage, keys) == [k \in DOMAIN storage \ keys |-> storage[k]]

\* the storage after clearOldCache() and the number it returns
clearOldCache(storage) ==
    [ storage |-> RemoveKeys(storage, OldKeys(storage)),
      count |-> Cardinality(OldKeys(storage)) ]

\* a clear that honours entityPrefix: no stored key names an entity, so with
\* an entityPrefix nothing matches
KeysToRemoveScoped(storage, entityPrefix) ==
    IF entityPrefix = 0
    THEN { key \in DOMAIN storage : startsWith(key, CACHE_PREFIX) }
    ELSE {}

\* the keys clearCache(entityPrefix) removes: with or without entityPrefix,
\* every key under the prefix
KeysToRemove(storage, entityPrefix) ==
    { key \in DOMAIN storage : startsWith(key, CACHE_PREFIX) }

clearCache(storage, entityPrefix) ==
    [ storage |-> RemoveKeys(storage, KeysToRemove(storage, entityPrefix)),
      count |-> Cardinality(KeysToRemove(storage, entityPrefix)) ]

\* e.name === 'QuotaExceededError' || e.code === 22
\* a catch block that takes every error for a capacity error
IsQuotaErrorAny(outcome) == TRUE

IsQuotaError(outcome) == outcome = "quota"

\* a write that gives up at the first QuotaExceededError: no cleanup, no retry
GuardedWriteNoRetry(storage, exceeded, cacheKey, cacheEntry) ==
    LET first == SetItemOutcome(storage, cacheKey)
    IN  IF exceeded
        THEN [storage |-> storage, exceeded |-> exceeded, setItems |-> << >>,
              evictions |-> 0]
        ELSE IF first = "ok"
        THEN [storage |-> MapSet(storage, cacheKey, stringify(cacheEntry)),
              exceeded |-> exceeded, setItems |-> << first >>, evictions |-> 0]
        ELSE [storage |-> storage, exceeded |-> IsQuotaError(first),
              setItems |-> << first >>, evictions |-> 0]

\* lines 202-223: the write of a fetched entry to localStorage.  Gives the
\* storage, the circuit breaker, the outcomes of the setItem calls made and
\* the number of cleanups run.
GuardedWrite(storage, exceeded, cacheKey, cacheEntry) ==
    LET first == SetItemOutcome(storage, cacheKey)
        cleared == clearOldCache(storage).storage
        retry == SetItemOutcome(cleared, cacheKey)
    IN  IF exceeded
        THEN [storage |-> storage, exceeded |-> exceeded, setItems |-> << >>,
              evictions |-> 0]
        ELSE IF first = "ok"
        THEN [storage |-> MapSet(storage, cacheKey, stringify(cacheEntry)),
              exceeded |-> exceeded, setItems |-> << first >>, evictions |-> 0]
        ELSE IF IsQuotaError(first)
        THEN IF retry = "ok"
             THEN [storage |-> MapSet(cleared, cacheKey, stringify(cacheEntry)),
                   exceeded |-> exceeded, setItems |-> << first, retry >>,
                   evictions |-> 1]
             ELSE [storage |-> cleared, exceeded |-> TRUE,
                   setItems |-> << first, retry >>, evictions |-> 1]
        ELSE [storage |-> storage, exceeded |-> exceeded, setItems |-> << first >>,
              evictions |-> 0]

\* line 156: the write of the background refresh, try { setItem } catch { ignore }
RefreshWrite(storage, exceeded, cacheKey, newEntry) ==
    LET first == SetItemOutcome(storage, cacheKey)
    IN  IF first = "ok"
        THEN [storage |-> MapSet(storage, cacheKey, stringify(newEntry)),
              exceeded |-> exceeded, setItems |-> << first >>, evictions |-> 0]
        ELSE [storage |-> storage, exceeded |-> exceeded, setItems |-> << first >>,
              evictions |-> 0]

(***************************************************************************)
(* The network operation of a call: await fetch(url), then the body.       *)
(***************************************************************************)
\* the operation of call id fails with a network or a parse error: the
\* fetchPromise rejects, the refreshPromise returns the stale data and
\* removes its ticket, the direct fetch rejects the call
OpFails(id, kind) ==
    LET call == calls[id]
        cacheKey == KeyOf[call.url]
    IN  /\ calls' =
              [calls EXCEPT ![id] =
                  IF call.op = "fetch"
                  THEN [call EXCEPT !.stage = "rejected", !.opError = kind]
                  ELSE IF call.op = "refresh"
                  THEN [call EXCEPT !.stage = "resolved", !.opValue = call.stale,
                                    !.opError = kind]
                  ELSE [Settle(call, "rejected", Undefined, kind)
                           EXCEPT !.stage = "rejected", !.opError = kind]]
        /\ inflight' = IF call.op = "refresh" THEN MapDelete(inflight, cacheKey)
                       ELSE inflight

\* await fetch(url) settles: the response arrives, or the request fails
FetchSettles(id, ok) ==
    /\ id \in 1..Len(calls)
    /\ calls[id].op # "none"
    /\ calls[id].stage = "fetch"
    /\ IF ok
       THEN /\ calls' = [calls EXCEPT ![id].stage = "text"]
            /\ UNCHANGED inflight
       ELSE OpFails(id, "network")
    /\ UNCHANGED << now, memoryCache, localStorage, capacity, denied, stats,
                    storageQuotaExceeded, returned >>

\* the entry both paths build from the parsed body
NewEntry(data) == [timestamp |-> now, data |-> data]

\* memoryCache.set placed under the test of the circuit breaker
MemoryAfterBodyUnlessDisabled(cache, cacheKey, body) ==
    IF body.kind = "json" /\ ~storageQuotaExceeded
    THEN MapSet(cache, cacheKey, NewEntry(body.data)) ELSE cache

\* memoryCache.set only for a key the memory tier does not hold yet
MemoryAfterBodyKeepsFirst(cache, cacheKey, body) ==
    IF body.kind = "json" /\ cacheKey \notin DOMAIN cache
    THEN MapSet(cache, cacheKey, NewEntry(body.data)) ELSE cache

\* memoryCache.set placed before the parse: whatever body arrived is stored
MemoryAfterBodyUnparsed(cache, cacheKey, body) ==
    IF body.kind # "lost" THEN MapSet(cache, cacheKey, NewEntry(body.data)) ELSE cache

\* the memory cache after the body was read: JSON.parse throws before
\* memoryCache.set is reached
MemoryAfterBody(cache, cacheKey, body) ==
    IF body.kind = "json" THEN MapSet(cache, cacheKey, NewEntry(body.data)) ELSE cache

\* await response.text() / response.json() settles, and the function runs on
\* to its end: parse, memoryCache.set, the durable write, return
BodyArrives(id, body) ==
    /\ id \in 1..Len(calls)
    /\ calls[id].op # "none"
    /\ calls[id].stage = "text"
    /\ LET call == calls[id]
           cacheKey == KeyOf[call.url]
           written ==
               IF call.op = "fetch"
               THEN GuardedWrite(localStorage, storageQuotaExceeded, cacheKey,
                                 NewEntry(body.data))
               ELSE RefreshWrite(localStorage, storageQuotaExceeded, cacheKey,
                                 NewEntry(body.data))
       IN  IF call.op = "direct"
           THEN /\ IF body.kind = "json"
                   THEN /\ calls' = [calls EXCEPT ![id] =
                               [Settle(call, "resolved", body.data, "none")
                                   EXCEPT !.stage = "resolved", !.opValue = body.data]]
                        /\ UNCHANGED inflight
                   ELSE OpFails(id, IF body.kind = "lost" THEN "network" ELSE "parse")
                /\ UNCHANGED << memoryCache, localStorage, storageQuotaExceeded >>
           ELSE /\ memoryCache' = MemoryAfterBody(memoryCache, cacheKey, body)
                /\ IF body.kind = "json"
                   THEN /\ localStorage' = written.storage
                        /\ storageQuotaExceeded' = written.exceeded
                        /\ calls' = [calls EXCEPT ![id] =
                               [call EXCEPT !.stage = "resolved", !.opValue = body.data,
                                            !.setItems = written.setItems,
                                            !.evictions = written.evictions]]
                        /\ inflight' = IF call.op = "refresh"
                                       THEN MapDelete(inflight, cacheKey) ELSE inflight
                   ELSE /\ OpFails(id, IF body.kind = "lost" THEN "network" ELSE "parse")
                        /\ UNCHANGED << localStorage, storageQuotaExceeded >>
    /\ UNCHANGED << now, capacity, denied, stats, returned >>

(***************************************************************************)
(* The continuations of the calls.                                         *)
(***************************************************************************)
\* lines 235-250: what the catch block settles the call with
Fallback(storage, cacheKey, error) ==
    IF cacheKey \in DOMAIN storage /\ Parses(storage[cacheKey])
    THEN [settled |-> "resolved", value |-> parse(storage[cacheKey]).data, error |-> "none"]
    ELSE [settled |-> "rejected", value |-> Undefined, error |-> error]

\* a miss path without its finally block: the ticket stays
FinallyKeeps(registry, cacheKey) == registry

\* lines 251-253: the finally block of the miss path
Finally(registry, cacheKey) == MapDelete(registry, cacheKey)

\* await fetchPromise settles in the call that made it
Continue(id) ==
    /\ id \in 1..Len(calls)
    /\ calls[id].pc = "awaiting"
    /\ OpSettled(calls[id])
    /\ LET call == calls[id]
           cacheKey == KeyOf[call.url]
           caught == Fallback(localStorage, cacheKey, call.opError)
       IN  /\ calls' = [calls EXCEPT ![id] =
                  IF call.stage = "resolved"
                  THEN Settle(call, "resolved", call.opValue, "none")
                  ELSE Settle(call, caught.settled, caught.value, caught.error)]
           /\ inflight' = Finally(inflight, cacheKey)
    /\ UNCHANGED << now, memoryCache, localStorage, capacity, denied, stats,
                    storageQuotaExceeded, returned >>

\* what a call that returned the promise in flight settles with
Adopt(call, owner) ==
    IF owner.stage = "resolved"
    THEN Settle(call, "resolved", owner.opValue, "none")
    ELSE Settle(call, "rejected", Undefined, owner.opError)

\* the promise returned at line 114 settles
Deliver(id) ==
    /\ id \in 1..Len(calls)
    /\ calls[id].pc = "attached"
    /\ OpSettled(calls[calls[id].ticket])
    /\ calls' = [calls EXCEPT ![id] = Adopt(calls[id], calls[calls[id].ticket])]
    /\ UNCHANGED << now, memoryCache, localStorage, capacity, denied, inflight, stats,
                    storageQuotaExceeded, returned >>

(***************************************************************************)
(* The rest of the public API, and the clock.                              *)
(***************************************************************************)
\* prefetch(url, options): cachedFetch(url, { ...options, staleWhileRevalidate: true })
prefetchOptions(options) == [options EXCEPT !.staleWhileRevalidate = TRUE]

prefetch(url, options) == cachedFetch(url, prefetchOptions(options), "prefetch")

ClearCache(entityPrefix) ==
    /\ localStorage' = clearCache(localStorage, entityPrefix).storage
    /\ returned' = [api |-> "clearCache",
                    value |-> clearCache(localStorage, entityPrefix).count,
                    report |-> {}]
    /\ UNCHANGED << now, memoryCache, capacity, denied, inflight, stats,
                    storageQuotaExceeded, calls >>

ClearOldCache ==
    /\ localStorage' = clearOldCache(localStorage).storage
    /\ returned' = [api |-> "clearOldCache", value |-> clearOldCache(localStorage).count,
                    report |-> {}]
    /\ UNCHANGED << now, memoryCache, capacity, denied, inflight, stats,
                    storageQuotaExceeded, calls >>

resetStats ==
    /\ stats' = [hits |-> 0, misses |-> 0]
    /\ returned' = [api |-> "resetStats", value |-> Undefined, report |-> {}]
    /\ UNCHANGED << now, memoryCache, localStorage, capacity, denied, inflight,
                    storageQuotaExceeded, calls >>

\* toFixed(1) of a percentage given in tenths of a percent
toFixed1(tenths) == NumberToString(tenths \div 10) \o << "." >> \o Digits(tenths % 10)

\* (hits / (hits + misses)) * 100 in tenths of a percent, rounded to nearest
HitRateTenths(s) == (2000 * s.hits + (s.hits + s.misses)) \div (2 * (s.hits + s.misses))

\* a report with the two counters taken for each other
getStatsSwapped(s) ==
    [ hits |-> s.misses,
      misses |-> s.hits,
      hitRate |-> (IF s.hits + s.misses > 0 THEN toFixed1(HitRateTenths(s)) ELSE << "0" >>)
                     \o << "%" >> ]

\* what getStats() returns for the counters s
getStats(s) ==
    [ hits |-> s.hits,
      misses |-> s.misses,
      hitRate |-> (IF s.hits + s.misses > 0 THEN toFixed1(HitRateTenths(s)) ELSE << "0" >>)
                     \o << "%" >> ]

GetStats ==
    /\ returned' = [api |-> "getStats", value |-> Undefined, report |-> {getStats(stats)}]
    /\ UNCHANGED << now, memoryCache, localStorage, capacity, denied, inflight, stats,
                    storageQuotaExceeded, calls >>

\* what getCacheInfo() returns on a storage: for every key under the prefix
\* the key without the prefix and the age in seconds of the entry, or the key
\* and the parse error (the size in bytes of the stored string is left out)
getCacheInfo(storage) ==
    { IF Parses(storage[key])
      THEN [ key |-> substring(key, Len(CACHE_PREFIX), Len(key)),
             age |-> IF "timestamp" \in DOMAIN parse(storage[key])
                     THEN (now - parse(storage[key]).timestamp) \div 1000
                     ELSE Undefined ]
      ELSE [ key |-> key, error |-> "parse error" ]
      : key \in {k \in DOMAIN storage : startsWith(k, CACHE_PREFIX)} }

GetCacheInfo ==
    /\ returned' = [api |-> "getCacheInfo", value |-> Undefined,
                    report |-> getCacheInfo(localStorage)]
    /\ UNCHANGED << now, memoryCache, localStorage, capacity, denied, inflight, stats,
                    storageQuotaExceeded, calls >>

\* the number of clock steps taken so far
TicksDone == (now - StartTime) \div TickStep

Tick ==
    /\ TicksDone < MaxTicks
    /\ now' = now + TickStep
    /\ UNCHANGED << memoryCache, localStorage, capacity, denied, inflight, stats,
                    storageQuotaExceeded, calls, returned >>

(***************************************************************************)
(* The initial state: the page has just loaded CacheUtil.js.  The durable  *)
(* tier holds what earlier sessions and other scripts left in it.          *)
(***************************************************************************)
\* an entry written 25 hours before the page loaded
OldEntry == [timestamp |-> StartTime - 25 * Hour, data |-> 1]

Session == [text |-> "session"]

\* what the durable tier may hold when the page loads: key is the key of
\* "?entity=pelajar", other the key of "?entity=subjek"
StorageWith(strings) ==
    [k \in DOMAIN strings \cup {SessionKey} |->
        IF k = SessionKey THEN Session ELSE strings[k]]

PelajarKey == KeyOf[CHOOSE u \in Urls : TtlOf[u] = 30 * Minute]

SubjekKey == KeyOf[CHOOSE u \in Urls : TtlOf[u] = Hour]

EmptyStorage == StorageWith(<< >>)

OldStorage == StorageWith([k \in {PelajarKey} |-> stringify(OldEntry)])

DamagedStorage ==
    StorageWith([k \in {PelajarKey, SubjekKey} |->
                    IF k = PelajarKey THEN stringify(OldEntry) ELSE Garbage])

Roomy == Cardinality(CacheKeys) + 1

Full(storage) == Cardinality(DOMAIN storage)

\* the storage, its capacity and whether writes are refused, at page load
InitialStores ==
    { [storage |-> EmptyStorage, capacity |-> Roomy, denied |-> FALSE],
      [storage |-> EmptyStorage, capacity |-> Full(EmptyStorage), denied |-> FALSE],
      [storage |-> OldStorage, capacity |-> Roomy, denied |-> FALSE],
      [storage |-> OldStorage, capacity |-> Full(OldStorage), denied |-> FALSE],
      [storage |-> DamagedStorage, capacity |-> Roomy, denied |-> FALSE],
      [storage |-> OldStorage, capacity |-> Roomy, denied |-> TRUE] }

Init ==
    /\ now = StartTime
    /\ memoryCache = << >>
    /\ \E store \in InitialStores :
          /\ localStorage = store.storage
          /\ capacity = store.capacity
          /\ denied = store.denied
    /\ inflight = << >>
    /\ stats = [hits |-> 0, misses |-> 0]
    /\ storageQuotaExceeded = FALSE
    /\ calls = << >>
    /\ returned = [api |-> "none", value |-> Undefined, report |-> {}]

\* the calls of one session go to one URL
CallUrls == IF calls = << >> THEN Urls ELSE {calls[1].url}

Next ==
    \/ \E url \in CallUrls, options \in {NoOptions, ForceRefresh, StaleWhileRevalidate} :
          cachedFetch(url, options, "cachedFetch")
    \/ \E id \in 1..MaxCalls, ok \in BOOLEAN : FetchSettles(id, ok)
    \/ \E id \in 1..MaxCalls, body \in BodyOutcomes : BodyArrives(id, body)
    \/ \E id \in 1..MaxCalls : Continue(id)
    \/ \E id \in 1..MaxCalls : Deliver(id)
    \/ Tick

Spec == Init /\ [][Next]_vars

(***************************************************************************)
(* The whole public API: calls with skipCache, prefetch, the maintenance   *)
(* calls clearCache, clearOldCache and resetStats.                         *)
(***************************************************************************)
\* entityPrefix of clearCache: null (0) or the name of an entity
EntityPrefixes == {0, 1}

ApiStores ==
    { [storage |-> EmptyStorage, capacity |-> Roomy, denied |-> FALSE],
      [storage |-> DamagedStorage, capacity |-> Roomy, denied |-> FALSE] }

InitApi ==
    /\ now = StartTime
    /\ memoryCache = << >>
    /\ \E store \in ApiStores :
          /\ localStorage = store.storage
          /\ capacity = store.capacity
          /\ denied = store.denied
    /\ inflight = << >>
    /\ stats = [hits |-> 0, misses |-> 0]
    /\ storageQuotaExceeded = FALSE
    /\ calls = << >>
    /\ returned = [api |-> "none", value |-> Undefined, report |-> {}]

NextApi ==
    \/ \E url \in CallUrls, options \in {NoOptions, SkipCache} :
          Len(calls) < MaxApiCalls /\ cachedFetch(url, options, "cachedFetch")
    \/ \E url \in CallUrls, options \in {NoOptions, ForceRefresh, SkipCache} :
          Len(calls) < MaxApiCalls /\ prefetch(url, options)
    \/ \E id \in 1..MaxCalls, ok \in BOOLEAN : FetchSettles(id, ok)
    \/ \E id \in 1..MaxCalls, body \in BodyOutcomes : BodyArrives(id, body)
    \/ \E id \in 1..MaxCalls : Continue(id)
    \/ \E id \in 1..MaxCalls : Deliver(id)
    \/ \E entityPrefix \in EntityPrefixes : ClearCache(entityPrefix)
    \/ ClearOldCache
    \/ resetStats
    \/ GetStats
    \/ GetCacheInfo
    \/ Tick

SpecApi == InitApi /\ [][NextApi]_vars

(***************************************************************************)
(* A session on a full store: the durable tier holds a stale entry of      *)
(* "?entity=pelajar" that is too young to be evicted, and has no room for  *)
(* another item.  The calls go to both URLs.                               *)
(***************************************************************************)
\* an entry written one hour before the page loaded
StaleEntry == [timestamp |-> StartTime - Hour, data |-> 1]

StaleStorage == StorageWith([k \in {PelajarKey} |-> stringify(StaleEntry)])

InitQuota ==
    /\ now = StartTime
    /\ memoryCache = << >>
    /\ localStorage = StaleStorage
    /\ capacity = Full(StaleStorage)
    /\ denied = FALSE
    /\ inflight = << >>
    /\ stats = [hits |-> 0, misses |-> 0]
    /\ storageQuotaExceeded = FALSE
    /\ calls = << >>
    /\ returned = [api |-> "none", value |-> Undefined, report |-> {}]

NextQuota ==
    \/ \E url \in Urls, options \in {NoOptions, ForceRefresh, StaleWhileRevalidate} :
          cachedFetch(url, options, "cachedFetch")
    \/ \E id \in 1..MaxCalls, ok \in BOOLEAN : FetchSettles(id, ok)
    \/ \E id \in 1..MaxCalls, body \in BodyOutcomes : BodyArrives(id, body)
    \/ \E id \in 1..MaxCalls : Continue(id)
    \/ \E id \in 1..MaxCalls : Deliver(id)

SpecQuota == InitQuota /\ [][NextQuota]_vars

(***************************************************************************)
(* A session whose network operations all settle: the durable tier holds   *)
(* a stale entry, the calls of the session go to one URL, and every        *)
(* request under way, every body being read and every continuation that    *)
(* can run is eventually taken.                                            *)
(***************************************************************************)
InitLive ==
    /\ now = StartTime
    /\ memoryCache = << >>
    /\ localStorage = StaleStorage
    /\ capacity = Roomy
    /\ denied = FALSE
    /\ inflight = << >>
    /\ stats = [hits |-> 0, misses |-> 0]
    /\ storageQuotaExceeded = FALSE
    /\ calls = << >>
    /\ returned = [api |-> "none", value |-> Undefined, report |-> {}]

NextLive ==
    \/ \E url \in CallUrls, options \in {NoOptions, ForceRefresh, StaleWhileRevalidate} :
          cachedFetch(url, options, "cachedFetch")
    \/ \E id \in 1..MaxCalls, ok \in BOOLEAN : FetchSettles(id, ok)
    \/ \E id \in 1..MaxCalls, body \in BodyOutcomes : BodyArrives(id, body)
    \/ \E id \in 1..MaxCalls : Continue(id)
    \/ \E id \in 1..MaxCalls : Deliver(id)

\* every network operation settles, and the microtasks of settled promises run
FairLive ==
    \A id \in 1..MaxCalls :
       /\ WF_vars(\E ok \in BOOLEAN : FetchSettles(id, ok))
       /\ WF_vars(\E body \in BodyOutcomes : BodyArrives(id, body))
       /\ WF_vars(Continue(id))
       /\ WF_vars(Deliver(id))

SpecLive == InitLive /\ [][NextLive]_vars /\ FairLive

(***************************************************************************)
(* A page loaded over a durable tier that holds an entry written ten       *)
(* minutes earlier by a previous page of the session: the memory tier is   *)
(* empty, the entry is valid; the browser stores what is written, or       *)
(* refuses every write.  Plain, forceRefresh, skipCache and                *)
(* staleWhileRevalidate calls, and resetStats.                             *)
(***************************************************************************)
FreshEntry == [timestamp |-> StartTime - 10 * Minute, data |-> 1]

FreshStorage == StorageWith([k \in {PelajarKey} |-> stringify(FreshEntry)])

InitTiers ==
    /\ now = StartTime
    /\ memoryCache = << >>
    /\ localStorage = FreshStorage
    /\ capacity = Roomy
    /\ denied \in BOOLEAN
    /\ inflight = << >>
    /\ stats = [hits |-> 0, misses |-> 0]
    /\ storageQuotaExceeded = FALSE
    /\ calls = << >>
    /\ returned = [api |-> "none", value |-> Undefined, report |-> {}]

NextTiers ==
    \/ \E url \in CallUrls,
          options \in {NoOptions, ForceRefresh, SkipCache, StaleWhileRevalidate} :
          cachedFetch(url, options, "cachedFetch")
    \/ \E id \in 1..MaxCalls, ok \in BOOLEAN : FetchSettles(id, ok)
    \/ \E id \in 1..MaxCalls, body \in BodyOutcomes : BodyArrives(id, body)
    \/ \E id \in 1..MaxCalls : Continue(id)
    \/ \E id \in 1..MaxCalls : Deliver(id)
    \/ resetStats
    \/ Tick

SpecTiers == InitTiers /\ [][NextTiers]_vars

(***************************************************************************)
(* Properties.                                                             *)
(***************************************************************************)
Ids == 1..Len(calls)

\* the calls made for the URLs of one cache key
OnKey(cacheKey) == {id \in Ids : KeyOf[calls[id].url] = cacheKey}

\* the calls that issued a network request
NetworkCalls(cacheKey) == {id \in OnKey(cacheKey) : calls[id].op # "none"}

IsPlain(call) == call.options = NoOptions

\* C1: when every call made so far for a key is a call with default options
\* made while neither tier held the key, then as long as no network operation
\* for the key has settled exactly one network request has been issued for
\* it, and once that request has succeeded each of these calls that has
\* settled (the one that issued it and the ones that took its ticket) has
\* resolved with the payload it fetched.
C1_DedupOfConcurrentCalls ==
    \A cacheKey \in CacheKeys :
        (\A id \in OnKey(cacheKey) : IsPlain(calls[id]) /\ calls[id].emptyAtCall)
            => /\ ( /\ OnKey(cacheKey) # {}
                    /\ \A id \in NetworkCalls(cacheKey) : Outstanding(calls[id]) )
                  => Cardinality(NetworkCalls(cacheKey)) = 1
               /\ \A owner \in OnKey(cacheKey), id \in OnKey(cacheKey) :
                     ( /\ calls[owner].op = "fetch"
                       /\ calls[owner].stage = "resolved"
                       /\ calls[owner].opError = "none"
                       /\ id = owner \/ calls[id].ticket = owner
                       /\ calls[id].pc = "done" )
                     => /\ calls[id].settled = "resolved"
                        /\ calls[id].value = calls[owner].opValue

\* three calls with default options on an empty cache, one request, and all
\* three resolved with the payload 2
C1_Witness ==
    \E cacheKey \in CacheKeys :
        /\ Cardinality(OnKey(cacheKey)) = MaxCalls
        /\ Cardinality(NetworkCalls(cacheKey)) = 1
        /\ \A id \in OnKey(cacheKey) :
              /\ IsPlain(calls[id])
              /\ calls[id].emptyAtCall
              /\ calls[id].settled = "resolved"
              /\ calls[id].value = 2

\* the calls without skipCache whose network operation has not settled
OutstandingOn(cacheKey) ==
    {id \in OnKey(cacheKey) : ~calls[id].options.skipCache /\ Outstanding(calls[id])}

\* C2: for every key at most one network operation started by calls without
\* skipCache is outstanding, whatever mix of plain, forceRefresh and
\* staleWhileRevalidate calls is made.
C2_OneOperationPerKey ==
    \A cacheKey \in CacheKeys : Cardinality(OutstandingOn(cacheKey)) <= 1

\* the step is a call of cachedFetch or prefetch
CallStep == Len(calls') = Len(calls) + 1

\* the call a call step makes
TheCall == calls'[Len(calls')]

\* a plain call for the key has completed after a successful fetch of its own
FetchedBefore(cacheKey) ==
    \E id \in OnKey(cacheKey) :
        /\ IsPlain(calls[id])
        /\ calls[id].pc = "done"
        /\ calls[id].op = "fetch"
        /\ calls[id].stage = "resolved"

\* a plain call made after a plain call for the same URL has completed with a
\* successful fetch issues a network request exactly if the entry of the key
\* has reached the TTL of the URL's entity
LaterPlainCall(url) ==
    ( /\ CallStep
      /\ TheCall.url = url
      /\ IsPlain(TheCall)
      /\ FetchedBefore(KeyOf[url]) )
    => ( TheCall.op # "none"
            <=> now - memoryCache[KeyOf[url]].timestamp >= TtlOf[url] )

\* C3 as stated: after a plain resourceFetch(u) has completed with a successful
\* fetch, a later plain resourceFetch(u) issues a new network call if and only
\* if now - entry.timestamp >= ttl.  (No step of Spec clears the cache.)
C3_Original == [][\A url \in Urls : LaterPlainCall(url)]_vars

\* C3 as amended: the same, for a later plain call made while no ticket is in
\* flight for the key; and an entry without a timestamp is never valid.
C3_RefetchExactlyAtTTL ==
    [][ /\ \A url \in Urls :
              KeyOf[url] \notin DOMAIN inflight => LaterPlainCall(url)
        /\ \A url \in Urls : ~isCacheValid([data |-> 1], TtlOf[url]) ]_vars

\* a plain call fetched, the TTL passed, and a second plain call, made with
\* no ticket in flight, has issued a request of its own
C3_Witness ==
    \E first \in Ids, second \in Ids :
        /\ first < second
        /\ calls[first].url = calls[second].url
        /\ \A id \in Ids : IsPlain(calls[id])
        /\ calls[first].pc = "done"
        /\ calls[first].op = "fetch"
        /\ calls[first].stage = "resolved"
        /\ calls[second].op = "fetch"
        /\ calls[second].stage = "fetch"
        /\ now - memoryCache[KeyOf[calls[first].url]].timestamp >= TtlOf[calls[first].url]

\* a string that parses is stored under the key in the durable tier
HasDurable(cacheKey) ==
    cacheKey \in DOMAIN localStorage /\ Parses(localStorage[cacheKey])

DurableEntry(cacheKey) == parse(localStorage[cacheKey])

HasValidMemory(cacheKey, ttl) ==
    cacheKey \in DOMAIN memoryCache /\ isCacheValid(memoryCache[cacheKey], ttl)

\* a call that reads the cache and has staleWhileRevalidate set
IsRevalidating(call) ==
    /\ call.options.staleWhileRevalidate
    /\ ~call.options.forceRefresh
    /\ ~call.options.skipCache

\* C4: a call with staleWhileRevalidate set, made when no ticket is in flight
\* for the key, the durable tier holds a stale entry for it and the memory
\* tier holds no valid one, is settled by the call step itself: it records a
\* hit and resolves with the payload of the stale entry.
C4_StaleServedAtOnce ==
    [][ \A url \in Urls :
          ( /\ CallStep
            /\ TheCall.url = url
            /\ IsRevalidating(TheCall)
            /\ KeyOf[url] \notin DOMAIN inflight
            /\ HasDurable(KeyOf[url])
            /\ ~isCacheValid(DurableEntry(KeyOf[url]),
                             ResolveTTL(url, TheCall.options.customTTL))
            /\ ~HasValidMemory(KeyOf[url], ResolveTTL(url, TheCall.options.customTTL)) )
          => /\ TheCall.pc = "done"
             /\ TheCall.settled = "resolved"
             /\ TheCall.value = DurableEntry(KeyOf[url]).data
             /\ stats' = [stats EXCEPT !.hits = @ + 1] ]_vars

\* the background refreshes of a key whose request has not settled
RefreshesPending(cacheKey) ==
    {id \in OnKey(cacheKey) : calls[id].op = "refresh" /\ Outstanding(calls[id])}

\* the body of the refresh of call id arrives and parses
RefreshSucceeds(id) ==
    /\ calls[id].op = "refresh"
    /\ calls[id].stage = "text"
    /\ calls'[id].stage = "resolved"
    /\ calls'[id].opError = "none"

\* the refresh of call id fails, at the request or at the body
RefreshFails(id) ==
    /\ calls[id].op = "refresh"
    /\ Outstanding(calls[id])
    /\ calls'[id].opError # "none"

\* C5: at most one background refresh per key is pending at any time; when a
\* refresh succeeds the memory tier holds the entry it fetched, and so does
\* the durable tier when localStorage accepts the write; when it fails
\* (network or parse) neither tier changes and the call that launched it stays
\* resolved with the stale payload.
C5_OneRefreshRewritesBothTiers ==
    [][ /\ \A cacheKey \in CacheKeys : Cardinality(RefreshesPending(cacheKey))' <= 1
        /\ \A id \in Ids :
              /\ RefreshSucceeds(id)
                 => /\ memoryCache'[KeyOf[calls[id].url]] = NewEntry(calls'[id].opValue)
                    /\ SetItemOutcome(localStorage, KeyOf[calls[id].url]) = "ok"
                       => /\ HasDurable(KeyOf[calls[id].url])'
                          /\ DurableEntry(KeyOf[calls[id].url])'
                                = NewEntry(calls'[id].opValue)
              /\ RefreshFails(id)
                 => /\ UNCHANGED << memoryCache, localStorage >>
                    /\ calls'[id].settled = "resolved"
                    /\ calls'[id].value = calls[id].stale ]_vars

\* the call whose network operation call id waits for
AwaitedOp(id) == IF calls[id].pc = "attached" THEN calls[id].ticket ELSE id

\* the promise of call id settles in this step, after the fetchPromise it
\* waited for was rejected with the given error
SettlesAfter(id, error) ==
    /\ calls[id].pc \in {"awaiting", "attached"}
    /\ calls'[id].pc = "done"
    /\ calls[AwaitedOp(id)].op = "fetch"
    /\ calls[AwaitedOp(id)].stage = "rejected"
    /\ calls[AwaitedOp(id)].opError = error

\* C6: a call without skipCache that waited for a fetch which failed on the
\* network resolves with the data of the durable entry of the key when one
\* exists, whatever its age, and rejects when none exists.
C6_FallbackOnNetworkFailure ==
    [][ \A id \in Ids :
          SettlesAfter(id, "network")
          => IF HasDurable(KeyOf[calls[id].url])
             THEN /\ calls'[id].settled = "resolved"
                  /\ calls'[id].value = DurableEntry(KeyOf[calls[id].url]).data
             ELSE calls'[id].settled = "rejected" ]_vars

\* C7: a call that waited for a fetch whose body was not valid JSON rejects
\* with the parse failure, whether or not the durable tier holds an entry for
\* the key.
C7_ParseFailureAlwaysRejects ==
    [][ \A id \in Ids :
          SettlesAfter(id, "parse")
          => /\ calls'[id].settled = "rejected"
             /\ calls'[id].error = "parse" ]_vars

\* a step of the network operation of call id, or of a call waiting for it,
\* on a path that ends in a parse failure: the body fails to parse, or the
\* failure reaches a waiting call
ParseFailureStep(id) ==
    \/ /\ calls[id].op # "none"
       /\ calls[id].stage = "text"
       /\ calls'[id].opError = "parse"
    \/ /\ calls[id].pc \in {"awaiting", "attached"}
       /\ calls'[id].pc = "done"
       /\ calls[AwaitedOp(id)].opError = "parse"

\* C8: a response that fails to parse changes neither tier, on the miss path,
\* the forceRefresh path and the background refresh: the call step that
\* issues a request, the arrival of the response, the failed parse and the
\* continuation of every call that waited for it all leave memoryCache and
\* localStorage as they were.
C8_ParseFailureNotCached ==
    [][ /\ (CallStep /\ TheCall.op # "none")
            => UNCHANGED << memoryCache, localStorage >>
        /\ \A id \in Ids :
              ( \/ calls[id].stage = "fetch" /\ calls'[id].stage = "text"
                \/ ParseFailureStep(id) )
              => UNCHANGED << memoryCache, localStorage >> ]_vars

\* a miss, a forceRefresh call and a background refresh have each received a
\* body that is not JSON, all calls have settled, and the tiers are as they
\* were when the page loaded
C8_Witness ==
    /\ Len(calls) = 3
    /\ \E a \in Ids, b \in Ids, c \in Ids :
          /\ calls[a].op = "fetch" /\ IsPlain(calls[a])
          /\ calls[b].op = "fetch" /\ calls[b].options.forceRefresh
          /\ calls[c].op = "refresh"
    /\ \A id \in Ids : calls[id].opError = "parse" /\ calls[id].pc = "done"
    /\ memoryCache = << >>
    /\ localStorage = OldStorage

\* the durable write of the fetch of call id meets a QuotaExceededError
QuotaOnWrite(id) ==
    /\ calls[id].op = "fetch"
    /\ calls[id].stage = "text"
    /\ calls'[id].stage = "resolved"
    /\ calls'[id].setItems # << >>
    /\ calls'[id].setItems[1] = "quota"

\* C10: when the durable write of a call's own successful fetch (miss or
\* forceRefresh) fails with QuotaExceededError, clearOldCache runs once and
\* setItem is retried once; if the retry succeeds the entry is stored and the
\* circuit breaker stays off, if it fails the circuit breaker goes on; either
\* way the memory tier holds the entry and the call resolves with the fetched
\* data.
C10_QuotaEvictsAndRetriesOnce ==
    [][ \A id \in Ids :
          /\ QuotaOnWrite(id)
             => /\ calls'[id].evictions = 1
                /\ Len(calls'[id].setItems) = 2
                /\ localStorage' \in
                      { RemoveKeys(localStorage, OldKeys(localStorage)),
                        MapSet(RemoveKeys(localStorage, OldKeys(localStorage)),
                               KeyOf[calls[id].url],
                               stringify(NewEntry(calls'[id].opValue))) }
                /\ IF calls'[id].setItems[2] = "ok"
                   THEN /\ storageQuotaExceeded' = FALSE
                        /\ HasDurable(KeyOf[calls[id].url])'
                        /\ DurableEntry(KeyOf[calls[id].url])'
                              = NewEntry(calls'[id].opValue)
                   ELSE /\ storageQuotaExceeded' = TRUE
                        /\ localStorage'
                              = RemoveKeys(localStorage, OldKeys(localStorage))
                /\ memoryCache'[KeyOf[calls[id].url]] = NewEntry(calls'[id].opValue)
          /\ ( /\ calls[id].pc = "awaiting"
               /\ calls'[id].pc = "done"
               /\ calls[id].evictions > 0 )
             => /\ calls'[id].settled = "resolved"
                /\ calls'[id].value = calls[id].opValue
                /\ calls'[id].error = "none" ]_vars

\* a call met a full store with nothing to evict: the retry failed too, the
\* durable writes were switched off and the call resolved with the fetched data
C10_Witness ==
    \E id \in Ids :
        /\ calls[id].pc = "done"
        /\ calls[id].settled = "resolved"
        /\ calls[id].value = 2
        /\ calls[id].evictions = 1
        /\ Len(calls[id].setItems) = 2
        /\ calls[id].setItems[2] # "ok"
        /\ storageQuotaExceeded

\* a call met a full store, clearOldCache evicted the old entry of another
\* key, the retry stored the new entry and the durable writes stayed enabled
C10_WitnessRetryStores ==
    \E id \in Ids :
        /\ calls[id].pc = "done"
        /\ calls[id].settled = "resolved"
        /\ calls[id].evictions = 1
        /\ calls[id].setItems = << "quota", "ok" >>
        /\ ~storageQuotaExceeded
        /\ HasDurable(KeyOf[calls[id].url])

\* a step of the direct fetch of a call made with skipCache
DirectStep(id) ==
    /\ calls[id].op = "direct"
    /\ calls'[id] # calls[id]

\* C9: a call with skipCache set issues a network fetch of its own, and
\* neither the call nor any step of its fetch changes memoryCache,
\* localStorage, the inflight registry or the counters, also when a valid
\* entry or a ticket exists for the key; the call settles with what its own
\* fetch gave.
C9_SkipCacheTouchesNothing ==
    [][ /\ (CallStep /\ TheCall.options.skipCache)
            => /\ TheCall.op = "direct"
               /\ TheCall.stage = "fetch"
               /\ TheCall.settled = "pending"
               /\ UNCHANGED << memoryCache, localStorage, inflight, stats >>
        /\ \A id \in Ids :
              /\ calls[id].options.skipCache => calls[id].op = "direct"
              /\ DirectStep(id)
                 => /\ UNCHANGED << memoryCache, localStorage, inflight, stats >>
                    /\ calls'[id].pc = "done"
                          => \/ /\ calls'[id].settled = "resolved"
                                /\ calls'[id].value = calls'[id].opValue
                             \/ /\ calls'[id].settled = "rejected"
                                /\ calls'[id].error = calls'[id].opError ]_vars

\* a call fetched and cached the payload 2, and a call with skipCache made
\* afterwards has fetched the payload 0 on its own: both tiers still hold the
\* valid entry with the payload 2
C9_Witness ==
    \E id \in Ids :
        /\ calls[id].options.skipCache
        /\ calls[id].pc = "done"
        /\ calls[id].settled = "resolved"
        /\ calls[id].value = 0
        /\ HasValidMemory(KeyOf[calls[id].url], TtlOf[calls[id].url])
        /\ memoryCache[KeyOf[calls[id].url]].data = 2
        /\ HasDurable(KeyOf[calls[id].url])
        /\ DurableEntry(KeyOf[calls[id].url]) = memoryCache[KeyOf[calls[id].url]]

\* a call with skipCache was made while a ticket was in flight for the key,
\* and has settled with the ticket still in place
C9_WitnessTicket ==
    \E id \in Ids :
        /\ calls[id].options.skipCache
        /\ calls[id].pc = "done"
        /\ KeyOf[calls[id].url] \in DOMAIN inflight
        /\ inflight[KeyOf[calls[id].url]] < id
        /\ Outstanding(calls[inflight[KeyOf[calls[id].url]]])

\* C11: once storageQuotaExceeded is set it stays set, and from then on no
\* operation (the fetch of a miss or of a forceRefresh call, a background
\* refresh) calls localStorage.setItem.
C11_NoDurableWriteOnceDisabled ==
    [][ storageQuotaExceeded
        => /\ storageQuotaExceeded'
           /\ \A id \in Ids : calls'[id].setItems = calls[id].setItems ]_vars

\* the fetch or the refresh of call id receives a body that parses
BodyParsed(id) ==
    /\ calls[id].op \in {"fetch", "refresh"}
    /\ calls[id].stage = "text"
    /\ calls'[id].stage = "resolved"
    /\ calls'[id].opError = "none"

\* C12: with storageQuotaExceeded set, a fetch that succeeds stores its entry
\* in memoryCache without calling setItem, and a plain call made while
\* memoryCache holds a valid entry for the key and no ticket is in flight for
\* it is a hit: it issues no request, counts a hit and resolves with the
\* payload of the memory entry.
C12_MemoryOnlyCaching ==
    [][ storageQuotaExceeded
        => /\ \A id \in Ids :
                 BodyParsed(id)
                 => /\ memoryCache'[KeyOf[calls[id].url]] = NewEntry(calls'[id].opValue)
                    /\ calls[id].op = "fetch" => calls'[id].setItems = << >>
           /\ \A url \in Urls :
                 ( /\ CallStep
                   /\ TheCall.url = url
                   /\ IsPlain(TheCall)
                   /\ KeyOf[url] \notin DOMAIN inflight
                   /\ HasValidMemory(KeyOf[url], TtlOf[url]) )
                 => /\ TheCall.op = "none"
                    /\ TheCall.pc = "done"
                    /\ TheCall.settled = "resolved"
                    /\ TheCall.value = memoryCache[KeyOf[url]].data
                    /\ stats' = [stats EXCEPT !.hits = @ + 1] ]_vars

\* the first call found the store full and switched the durable writes off;
\* after the TTL a second call fetched the payload 2 without a durable
\* write; a third call was served that payload from memoryCache, and the
\* durable tier never held the key
C12_Witness ==
    /\ storageQuotaExceeded
    /\ Len(calls) = 3
    /\ \A id \in Ids : IsPlain(calls[id]) /\ calls[id].pc = "done"
    /\ calls[1].setItems = << "quota", "quota" >>
    /\ calls[2].op = "fetch"
    /\ calls[2].setItems = << >>
    /\ calls[2].opValue = 2
    /\ calls[3].op = "none"
    /\ calls[3].ticket = 0
    /\ calls[3].value = 2
    /\ KeyOf[calls[3].url] \notin DOMAIN localStorage
    /\ stats = [hits |-> 1, misses |-> 2]

\* the keys of a storage under the prefix of the cache
PrefixedKeys(storage) == {key \in DOMAIN storage : startsWith(key, CACHE_PREFIX)}

\* the step is a call of clearCache that changed the store or what was
\* returned last
ClearCacheStep ==
    /\ returned'.api = "clearCache"
    /\ UNCHANGED << calls, now >>

\* C13: clearCache, called with or without an entityPrefix, removes every key
\* of localStorage that starts with CACHE_PREFIX and no other key, and returns
\* the number of keys it removed; after it localStorage holds no key under
\* the prefix.
C13_ClearCacheRemovesAllPrefixed ==
    [][ ClearCacheStep
        => /\ PrefixedKeys(localStorage') = {}
           /\ DOMAIN localStorage' = DOMAIN localStorage \ PrefixedKeys(localStorage)
           /\ \A key \in DOMAIN localStorage' : localStorage'[key] = localStorage[key]
           /\ returned'.value = Cardinality(PrefixedKeys(localStorage)) ]_vars

\* clearCache has removed the two entries a fetch and an earlier session had
\* left under the prefix, and the session key is still there
C13_Witness ==
    /\ returned.api = "clearCache"
    /\ returned.value = 2
    /\ PrefixedKeys(localStorage) = {}
    /\ DOMAIN localStorage = {SessionKey}
    /\ \E id \in Ids : calls[id].setItems = << "ok" >>

\* C14: after clearCache has returned, while the durable tier holds no entry
\* for the key and every earlier call has settled, a plain call is a miss: it
\* counts a miss and issues a network request, it is not served from
\* memoryCache.
C14_ClearCacheInvalidatesMemory ==
    [][ \A url \in Urls :
          ( /\ CallStep
            /\ TheCall.url = url
            /\ IsPlain(TheCall)
            /\ returned.api = "clearCache"
            /\ \A id \in Ids : calls[id].pc = "done"
            /\ KeyOf[url] \notin DOMAIN localStorage
            /\ KeyOf[url] \notin DOMAIN inflight )
          => /\ TheCall.op = "fetch"
             /\ stats' = [stats EXCEPT !.misses = @ + 1] ]_vars

\* the first characters of a key are those of CACHE_PREFIX
UnderPrefix(key) ==
    /\ Len(key) >= Len(CACHE_PREFIX)
    /\ \A i \in 1..Len(CACHE_PREFIX) : key[i] = CACHE_PREFIX[i]

\* the session key is in localStorage with the value the login page gave it,
\* and every other key of localStorage is under the prefix
ForeignKeysIntact ==
    /\ ~UnderPrefix(SessionKey)
    /\ SessionKey \in DOMAIN localStorage
    /\ localStorage[SessionKey] = Session
    /\ \A key \in DOMAIN localStorage \ {SessionKey} : UnderPrefix(key)

\* C15: a key of localStorage that does not start with CACHE_PREFIX keeps its
\* value through every operation of the cache (cachedFetch, prefetch,
\* clearCache, clearOldCache, getCacheInfo); every key the cache derives and
\* writes starts with the prefix; getCacheInfo reports no entry for a key
\* outside the prefix.
C15_ForeignKeysUntouched ==
    /\ ForeignKeysIntact
    /\ \A url \in Urls : UnderPrefix(getCacheKey(url))
    /\ [][ /\ ForeignKeysIntact'
           /\ \A key \in DOMAIN localStorage' \ DOMAIN localStorage : key \in CacheKeys
           /\ ( returned'.api = "getCacheInfo" /\ UNCHANGED << calls, now >> )
                 => \A entry \in returned'.report :
                       /\ entry.key # SessionKey
                       /\ "error" \notin DOMAIN entry
                             => CACHE_PREFIX \o entry.key \in DOMAIN localStorage ]_vars

\* clearOldCache has evicted the old and the damaged entry, a call has
\* written a new entry, clearCache has removed it, getCacheInfo has listed an
\* empty cache, and the session key still holds its value
C15_Witness ==
    /\ returned.api = "getCacheInfo"
    /\ returned.report = {}
    /\ DOMAIN localStorage = {SessionKey}
    /\ localStorage[SessionKey] = Session
    /\ \E id \in Ids : calls[id].setItems = << "ok" >> /\ calls[id].api = "prefetch"
    /\ \E id \in Ids : calls[id].api = "cachedFetch"

\* the step is a call of resetStats
ResetStatsStep ==
    /\ returned'.api = "resetStats"
    /\ UNCHANGED << calls, now, localStorage >>

\* the step is a call of getStats
GetStatsStep ==
    /\ returned'.api = "getStats"
    /\ UNCHANGED << calls, now, localStorage, stats >>

\* C16: no step other than resetStats lowers hits or misses; resetStats sets
\* both to zero; getStats returns the two counters as they are, with the hit
\* rate "0%" before the first observation and hits / (hits + misses) as a
\* percentage with one decimal afterwards (3 hits and 2 misses: "60.0%").
C16_CountersMonotone ==
    /\ getStats([hits |-> 3, misses |-> 2]).hitRate = << "6", "0", ".", "0", "%" >>
    /\ getStats([hits |-> 0, misses |-> 0]).hitRate = << "0", "%" >>
    /\ [][ /\ IF ResetStatsStep
              THEN stats' = [hits |-> 0, misses |-> 0]
              ELSE stats'.hits >= stats.hits /\ stats'.misses >= stats.misses
           /\ GetStatsStep
              => returned'.report =
                    { [ hits |-> stats.hits,
                        misses |-> stats.misses,
                        hitRate |-> (IF stats.hits + stats.misses = 0 THEN << "0" >>
                                     ELSE toFixed1(HitRateTenths(stats))) \o << "%" >> ] } ]_vars

\* a miss was counted, resetStats cleared the counters, the next call was a
\* hit, and getStats reports 1 hit, 0 misses and "100.0%"
C16_Witness ==
    /\ returned.api = "getStats"
    /\ returned.report =
          { [hits |-> 1, misses |-> 0, hitRate |-> << "1", "0", "0", ".", "0", "%" >>] }
    /\ stats = [hits |-> 1, misses |-> 0]
    /\ Len(calls) = 2
    /\ calls[1].op = "fetch" /\ ~calls[1].options.skipCache
    /\ calls[2].op = "none" /\ calls[2].ticket = 0

\* C17: the promise of prefetch never rejects: once the call underneath has
\* settled, with the fetched data, with a network failure and no stored
\* entry, or with an unparseable body, the promise of prefetch is resolved;
\* and the call underneath always has staleWhileRevalidate set, whatever
\* options the caller gave.
C17_PrefetchNeverRejects ==
    \A id \in Ids :
       calls[id].api = "prefetch"
       => /\ calls[id].options.staleWhileRevalidate
          /\ calls[id].outer # "rejected"
          /\ calls[id].pc = "done" <=> calls[id].outer = "resolved"
          /\ \A options \in {NoOptions, ForceRefresh, SkipCache} :
                prefetchOptions(options).staleWhileRevalidate

\* two prefetch calls have finished on an empty cache, one whose request
\* failed on the network and one whose body did not parse: the calls
\* underneath rejected, both promises of prefetch are resolved
C17_Witness ==
    /\ Len(calls) = 2
    /\ \A id \in Ids :
          /\ calls[id].api = "prefetch"
          /\ calls[id].emptyAtCall
          /\ calls[id].settled = "rejected"
          /\ calls[id].outer = "resolved"
    /\ calls[1].error = "network"
    /\ calls[2].error = "parse"

\* a prefetch called with forceRefresh has fetched and stored the payload and
\* its promise is resolved
C17_WitnessSuccess ==
    \E id \in Ids :
       /\ calls[id].api = "prefetch"
       /\ calls[id].options.forceRefresh
       /\ calls[id].settled = "resolved"
       /\ calls[id].value = 2
       /\ calls[id].outer = "resolved"

\* no ticket is registered, no network operation is pending and every call
\* made has settled
Quiet ==
    /\ inflight = << >>
    /\ \A id \in Ids : calls[id].pc = "done" /\ ~Outstanding(calls[id])

\* the network operation of call id settles in this step
OpSettles(id) == Outstanding(calls[id]) /\ OpSettled(calls'[id])

\* the call that awaits its own fetchPromise runs on past the await
OwnerContinues(id) == calls[id].pc = "awaiting" /\ calls'[id].pc = "done"

\* C18: the ticket of a background refresh is gone in the step in which the
\* refresh settles, and the ticket of a fetch is gone when its owner runs on
\* after the fetch settled, on success and on failure alike; when every
\* network operation settles and the calls have stopped arriving, the
\* registry ends empty for good and every call made has resolved or
\* rejected.
C18_TicketsEventuallyRemoved ==
    /\ [][ \A id \in Ids :
             /\ ( calls[id].op = "refresh" /\ OpSettles(id) )
                   => KeyOf[calls[id].url] \notin DOMAIN inflight'
             /\ OwnerContinues(id)
                   => /\ KeyOf[calls[id].url] \notin DOMAIN inflight'
                      /\ calls'[id].settled \in {"resolved", "rejected"} ]_vars
    /\ <>[]Quiet

\* a fetch that registered a ticket failed on the network, a call attached to
\* it rejected, a later background refresh succeeded, and the registry is
\* empty with every call settled
C18_Witness ==
    /\ Quiet
    /\ Len(calls) = 3
    /\ calls[1].op = "fetch" /\ Registers(calls[1].options)
    /\ calls[1].stage = "rejected"
    /\ calls[2].ticket = 1 /\ calls[2].settled = "rejected"
    /\ calls[3].op = "refresh" /\ calls[3].opError = "none"
    /\ calls[3].stage = "resolved"

\* the network operation of call id was registered in inflight when it was
\* started: the fetch of a miss (line 230) or a background refresh (line 164)
HoldsTicket(id) ==
    \/ calls[id].op = "refresh"
    \/ calls[id].op = "fetch" /\ Registers(calls[id].options)

\* C19: while a network operation that was registered in inflight is
\* pending, its ticket is in the registry under its key: no other call for
\* the key removes it before the operation settles.
C19_TicketStaysWhilePending ==
    \A id \in Ids :
       ( HoldsTicket(id) /\ Outstanding(calls[id]) )
       => /\ KeyOf[calls[id].url] \in DOMAIN inflight
          /\ inflight[KeyOf[calls[id].url]] = id

\* the durable write of the fetch of call id fails with an error that is
\* not a capacity error
OtherErrorOnWrite(id) ==
    /\ calls[id].op = "fetch"
    /\ calls[id].stage = "text"
    /\ calls'[id].stage = "resolved"
    /\ calls'[id].setItems # << >>
    /\ calls'[id].setItems[1] = "other"

\* C20: when the durable write of a call's own successful fetch fails with
\* an error other than QuotaExceededError, clearOldCache is not run, setItem
\* is not retried, the circuit breaker keeps its value and localStorage its
\* content, the memory tier holds the new entry, and the call resolves with
\* the fetched data.
C20_OtherWriteFailureSwallowed ==
    [][ \A id \in Ids :
          /\ OtherErrorOnWrite(id)
             => /\ calls'[id].evictions = 0
                /\ calls'[id].setItems = << "other" >>
                /\ storageQuotaExceeded' = storageQuotaExceeded
                /\ localStorage' = localStorage
                /\ memoryCache'[KeyOf[calls[id].url]] = NewEntry(calls'[id].opValue)
          /\ ( /\ calls[id].pc = "awaiting"
               /\ calls'[id].pc = "done"
               /\ calls[id].stage = "resolved"
               /\ calls[id].setItems = << "other" >> )
             => /\ calls'[id].settled = "resolved"
                /\ calls'[id].value = calls[id].opValue
                /\ calls'[id].error = "none" ]_vars

\* the store refused the write of a fetched entry: the call resolved with the
\* fetched data after one setItem and no cleanup, the durable writes are
\* still enabled, the durable tier still holds the old entry and the memory
\* tier the new one
C20_Witness ==
    \E id \in Ids :
        /\ calls[id].pc = "done"
        /\ calls[id].op = "fetch"
        /\ calls[id].settled = "resolved"
        /\ calls[id].value = 2
        /\ calls[id].setItems = << "other" >>
        /\ calls[id].evictions = 0
        /\ ~storageQuotaExceeded
        /\ localStorage = OldStorage
        /\ KeyOf[calls[id].url] \in DOMAIN memoryCache
        /\ memoryCache[KeyOf[calls[id].url]].data = 2

\* every call made so far was a plain or a staleWhileRevalidate call
OnlyPlainOrRevalidate ==
    \A id \in Ids : ~calls[id].options.forceRefresh /\ ~calls[id].options.skipCache

\* C21: as long as no call has used forceRefresh or skipCache, at most one
\* network operation per key is outstanding, for every interleaving of plain
\* and staleWhileRevalidate calls with the completions of the requests; a
\* ticket in the registry belongs to a call on that key, and an outstanding
\* operation is the one the registry holds.
C21_OneOperationWithoutForceRefresh ==
    OnlyPlainOrRevalidate
    => \A cacheKey \in CacheKeys :
          /\ Cardinality(OutstandingOn(cacheKey)) <= 1
          /\ \A id \in OutstandingOn(cacheKey) :
                cacheKey \in DOMAIN inflight /\ inflight[cacheKey] = id

\* a staleWhileRevalidate call served the stale entry and its background
\* refresh is pending; a plain and a staleWhileRevalidate call made meanwhile
\* returned its promise: one operation is outstanding for three calls
C21_Witness ==
    /\ Len(calls) = 3
    /\ OnlyPlainOrRevalidate
    /\ calls[1].op = "refresh" /\ Outstanding(calls[1])
    /\ IsPlain(calls[2]) /\ calls[2].pc = "attached" /\ calls[2].ticket = 1
    /\ calls[3].options.staleWhileRevalidate
    /\ calls[3].pc = "attached" /\ calls[3].ticket = 1
    /\ Cardinality(OutstandingOn(KeyOf[calls[1].url])) = 1

\* a plain call missed and its fetch is pending; the two calls made meanwhile
\* attached to it
C21_WitnessMiss ==
    /\ Len(calls) = 3
    /\ OnlyPlainOrRevalidate
    /\ calls[1].op = "fetch" /\ Outstanding(calls[1])
    /\ calls[2].pc = "attached" /\ calls[3].pc = "attached"
    /\ calls[2].options.staleWhileRevalidate

\* the calls that went through the cache without returning a promise in
\* flight: made without skipCache, and not attached to a ticket
CountedCalls == {id \in Ids : ~calls[id].options.skipCache /\ calls[id].ticket = 0}

\* C22: a call without skipCache that does not attach to a ticket adds one
\* to exactly one counter: to hits when it is served from memoryCache, from
\* localStorage or with a stale entry, to misses when it goes to the network,
\* as every forceRefresh call does; a call that attaches and a call with
\* skipCache change neither counter, and no other step but resetStats
\* changes them; so until the first reset hits + misses is the number of
\* calls that neither attached nor used skipCache.
C22_EachCallCountedOnce ==
    /\ stats.hits + stats.misses = Cardinality(CountedCalls)
    /\ [][ /\ IF ~CallStep
              THEN IF ResetStatsStep THEN stats' = [hits |-> 0, misses |-> 0]
                   ELSE stats' = stats
              ELSE IF TheCall.options.skipCache \/ TheCall.ticket # 0
              THEN stats' = stats
              ELSE IF TheCall.pc = "done"
              THEN /\ stats' = [hits |-> stats.hits + 1, misses |-> stats.misses]
                   /\ ~TheCall.options.forceRefresh
                   /\ TheCall.settled = "resolved"
              ELSE /\ stats' = [hits |-> stats.hits, misses |-> stats.misses + 1]
                   /\ TheCall.op = "fetch"
           /\ returned'.api = "none"
                 => stats'.hits + stats'.misses = Cardinality(CountedCalls') ]_vars

\* a plain call was served from localStorage (a hit); after the entry
\* expired a second plain call went to the network (a miss) and a third
\* attached to its ticket: three calls, two counted
C22_Witness ==
    /\ Len(calls) = 3
    /\ returned.api = "none"
    /\ stats = [hits |-> 1, misses |-> 1]
    /\ \A id \in Ids : IsPlain(calls[id])
    /\ calls[1].op = "none" /\ calls[1].value = 1
    /\ calls[2].op = "fetch"
    /\ calls[3].ticket = 2

\* a forceRefresh call counted a miss, a skipCache call counted nothing, and
\* a staleWhileRevalidate call served with the stale entry counted a hit
C22_WitnessOptions ==
    /\ Len(calls) = 3
    /\ returned.api = "none"
    /\ stats = [hits |-> 1, misses |-> 1]
    /\ calls[1].options.forceRefresh
    /\ calls[2].options.skipCache
    /\ calls[3].op = "refresh"

\* the keys both tiers hold an entry with a timestamp for
InBothTiers(cache, storage) ==
    {key \in DOMAIN cache \cap DOMAIN storage :
        Parses(storage[key]) /\ HasTimestamp(parse(storage[key]))}

\* the memory entry of every key in both tiers is at least as new as the
\* durable one
MemoryNotOlder(cache, storage) ==
    \A key \in InBothTiers(cache, storage) :
        cache[key].timestamp >= parse(storage[key]).timestamp

\* C23: for every key present in both tiers the timestamp of the memory
\* entry is greater than or equal to that of the durable entry; a step that
\* writes an entry to localStorage has written the same entry to
\* memoryCache; and a call promotes a durable entry to memoryCache only when
\* memoryCache holds no entry for the key or an older one.
C23_MemoryAtLeastAsNewAsDurable ==
    /\ MemoryNotOlder(memoryCache, localStorage)
    /\ [][ /\ MemoryNotOlder(memoryCache', localStorage')
           /\ \A key \in CacheKeys :
                 /\ ( /\ key \in DOMAIN localStorage'
                      /\ key \in DOMAIN localStorage => localStorage'[key] # localStorage[key] )
                    => /\ key \in DOMAIN memoryCache'
                       /\ stringify(memoryCache'[key]) = localStorage'[key]
                 /\ ( /\ CallStep
                      /\ key \in DOMAIN memoryCache'
                      /\ key \in DOMAIN memoryCache => memoryCache'[key] # memoryCache[key] )
                    => /\ key \in DOMAIN localStorage
                       /\ memoryCache'[key] = parse(localStorage[key])
                       /\ key \in DOMAIN memoryCache
                             => memoryCache[key].timestamp < memoryCache'[key].timestamp ]_vars

\* a plain call promoted the durable entry to memoryCache; later the browser
\* refused the write of a forced fetch: the memory entry is newer than the
\* durable entry, which is still the one the page was loaded with
C23_Witness ==
    /\ Len(calls) >= 2
    /\ calls[1].op = "none" /\ calls[1].value = 1 /\ IsPlain(calls[1])
    /\ calls[2].options.forceRefresh /\ calls[2].setItems = << "other" >>
    /\ PelajarKey \in InBothTiers(memoryCache, localStorage)
    /\ localStorage[PelajarKey] = stringify(FreshEntry)
    /\ memoryCache[PelajarKey].timestamp > FreshEntry.timestamp

\* a fetch wrote the same new entry to both tiers over the older one
C23_WitnessBothWritten ==
    /\ PelajarKey \in InBothTiers(memoryCache, localStorage)
    /\ localStorage[PelajarKey] = stringify(memoryCache[PelajarKey])
    /\ memoryCache[PelajarKey].timestamp = StartTime + TickStep
    /\ \E id \in Ids : calls[id].setItems = << "ok" >>

====
